---- MODULE Spec2Model ----
(***************************************************************************)
(* Model of the proxy validation pipeline: the delay-test stage            *)
(* (checker.check_nodes) with its outbound sanitizer, the looking-glass    *)
(* reachability stage (check_host.reachable_from_country), its poll loop   *)
(* (check_host._poll_tcp_result) and the orchestrator (run_once.main).     *)
(*                                                                         *)
(* Every coroutine runs on one asyncio event loop: a step of the model is  *)
(* the code a task runs between two suspension points (await), or one pass *)
(* of a loop of straight-line code.                                        *)
(***************************************************************************)
EXTENDS Integers, Sequences, FiniteSets, TLC

VARIABLES
    entry,              \* the function the run calls
    \* ---- check_nodes (src/checker.py) ----
    cn_pc,              \* position of check_nodes
    max_concurrency,    \* argument max_concurrency
    export_link,        \* n -> whether Node n has a (truthy) export_link
    export_clash_proxy, \* n -> whether Node n has a (truthy) export_clash_proxy
    sem,                \* value of the asyncio.Semaphore of check_nodes
    one_pc,             \* n -> position of the task one(n)
    delay,              \* n -> what runner.delay_test gave for n.tag
    healthy_links,      \* the list healthy_links (entries: the node whose export_link it is)
    healthy_clash,      \* the list healthy_clash
    engine,             \* the SingBoxRunner of check_nodes: entered/started/released counts
    node_outbound,      \* n -> the object nodes[n].outbound
    outbounds,          \* the local list outbounds: the node an entry came from, the object
    start_arg,          \* the list runner.start was called with
    \* ---- reachable_from_country (src/check_host.py) ----
    rc_pc,              \* position of reachable_from_country
    singbox_path,       \* whether the argument singbox_path is set (truthy)
    concurrency,        \* argument concurrency
    max_endpoints,      \* argument max_endpoints
    node_names,         \* the probe-node names get_nodes gave
    rc_sem,             \* value of the asyncio.Semaphore of reachable_from_country
    runner,             \* whether runner is set (not None)
    api,                \* whether api is set (not None)
    rc_engine,          \* the SingBoxRunner of reachable_from_country
    test_pc,            \* e -> position of the task test_one(e)
    rid,                \* e -> what _start_tcp_check gave
    success_tcp,        \* e -> what _poll_tcp_result gave
    confirm,            \* e -> what the confirm delay_test gave
    ok,                 \* the list ok
    fetches,            \* how many times get_nodes was called
    submit_names,       \* e -> the node_names _start_tcp_check was called with
    poll_names,         \* e -> the node_names _poll_tcp_result was called with
    \* ---- _poll_tcp_result (src/check_host.py) ----
    p_pc,               \* position of _poll_tcp_result
    p_node_names,       \* argument node_names
    min_success,        \* argument min_success
    max_wait,           \* argument max_wait, in seconds
    now,                \* the event loop's clock, in ticks since the call
    deadline,           \* the local deadline, in ticks
    p_result,           \* how the call ended
    p_last,             \* the last attempt: kind of response, probes that succeeded, verdict
    \* ---- one outbound through the sanitizer of check_nodes (src/checker.py) ----
    s_pc,               \* how far the outbound went
    s_given,            \* the value of n.outbound when check_nodes is called
    s_ob,               \* the object n.outbound
    s_invalid,          \* what has_invalid_ws_path(ob) gave
    s_clean,            \* what sanitize_outbound(ob.copy()) gave
    s_again,            \* what sanitize_outbound gave when applied to s_clean
    \* ---- main (src/run_once.py) ----
    m_pc,               \* position of main
    res_healthy_links,  \* res.healthy_links: what node_from_share_link gives for each link
    res_healthy_clash,  \* res.healthy_clash_proxies
    check_host_country, \* whether CHECK_HOST_COUNTRY is set (truthy)
    speed_enabled,      \* the local speed_enabled
    m_i,                \* position of the running for loop
    endpoints,          \* the list endpoints
    seen_hostport,      \* the set seen_hostport
    iran_ok,            \* the list iran_ok
    fast_count,         \* the local fast_count
    m_failed,           \* the stages that raised
    m_written,          \* whether the result files were written
    m_sent              \* whether the documents and the summary were sent

cn_vars == <<cn_pc, max_concurrency, export_link, export_clash_proxy, sem, one_pc,
             delay, healthy_links, healthy_clash, engine, node_outbound, outbounds,
             start_arg>>

b_vars == <<node_outbound, outbounds, start_arg>>

rc_vars == <<rc_pc, singbox_path, concurrency, max_endpoints, node_names, rc_sem, runner,
             api, rc_engine, test_pc, rid, success_tcp, confirm, ok, fetches, submit_names,
             poll_names>>

q_vars == <<fetches, submit_names, poll_names>>

p_vars == <<p_pc, p_node_names, min_success, max_wait, now, deadline, p_result, p_last>>

s_vars == <<s_pc, s_given, s_ob, s_invalid, s_clean, s_again>>

m_vars == <<m_pc, res_healthy_links, res_healthy_clash, check_host_country, speed_enabled,
            m_i, endpoints, seen_hostport, iran_ok, fast_count, m_failed, m_written,
            m_sent>>

vars == <<entry, cn_vars, rc_vars, p_vars, s_vars, m_vars>>

----------------------------------------------------------------------------
(* Bounds *)

NumNodes == 2
MaxConcurrency == 2
NumEndpoints == 2
MaxResults == 2         \* result objects per probe node in a poll response
MaxQuorum == 3          \* min_success ranges over 0..MaxQuorum
MaxWait == 1            \* max_wait ranges over 0..MaxWait seconds
MaxRequestTicks == 1    \* a poll request takes 0..MaxRequestTicks ticks
MaxPathLen == 3         \* characters of a transport path
MaxCandidates == 2      \* healthy links and healthy clash proxies of a CheckResult

Nodes == 1..NumNodes
Endpoints == 1..NumEndpoints

\* asyncio.sleep(0.5) is one tick of the model's clock
TicksPerSecond == 2
\* default of max_delay_ms
max_delay_ms == 800

----------------------------------------------------------------------------
(* Values *)

\* what delay_test gives: a delay in ms, None, or an exception
None == [kind |-> "returned", present |-> FALSE, ms |-> 0]
Delay(ms) == [kind |-> "returned", present |-> TRUE, ms |-> ms]
Raised == [kind |-> "raised", present |-> FALSE, ms |-> 0]
Untested == [kind |-> "untested", present |-> FALSE, ms |-> 0]

\* delays the control API can report in check_nodes (0 is a present delay)
NodeDelays == {None, Delay(0), Delay(50)}

NewEngine == [entered |-> 0, started |-> 0, released |-> 0, up |-> "no"]

Count(seq, x) == Cardinality({i \in 1..Len(seq) : seq[i] = x})

----------------------------------------------------------------------------
(* Outbound configurations: JSON-like trees *)

\* a Python value: kind is its type; a str is the sequence of its characters
Str(t) == [kind |-> "str", text |-> t]
PyInt(n) == [kind |-> "int", n |-> n]
PyFloat(units, tenths) == [kind |-> "float", units |-> units, tenths |-> tenths]
PyBool(b) == [kind |-> "bool", b |-> b]
PyNone == [kind |-> "none"]
Dict(f) == [kind |-> "dict", items |-> f]
List(s) == [kind |-> "list", elems |-> s]
Tuple(s) == [kind |-> "tuple", elems |-> s]

\* d.get(key): a key that is missing reads as None
Get(d, key) == IF key \in DOMAIN d.items THEN d.items[key] ELSE PyNone

\* str(n) for an int: its decimal digits, with a sign
DigitChars == <<"0", "1", "2", "3", "4", "5", "6", "7", "8", "9">>

RECURSIVE NatStr(_)
NatStr(n) == IF n < 10 THEN <<DigitChars[n + 1]>>
             ELSE Append(NatStr(n \div 10), DigitChars[(n % 10) + 1])

IntStr(n) == IF n < 0 THEN <<"-">> \o NatStr(0 - n) ELSE NatStr(n)

\* str(val) for the types sanitize_outbound converts
PyStr(val) ==
    IF val.kind = "bool" THEN (IF val.b THEN <<"T", "r", "u", "e">>
                                        ELSE <<"F", "a", "l", "s", "e">>)
    ELSE IF val.kind = "int" THEN IntStr(val.n)
    ELSE IntStr(val.units) \o <<".">> \o NatStr(val.tenths)

\* line 67
hex_digits == {"0", "1", "2", "3", "4", "5", "6", "7", "8", "9",
               "a", "b", "c", "d", "e", "f", "A", "B", "C", "D", "E", "F"}

\* variant: a `%` with fewer than two characters after it is let through
RECURSIVE ScanLenient(_, _)
ScanLenient(p, i) ==
    IF i > Len(p) THEN FALSE
    ELSE IF p[i] = "%"
         THEN IF i + 2 > Len(p) THEN ScanLenient(p, i + 1)
              ELSE IF p[i + 1] \notin hex_digits \/ p[i + 2] \notin hex_digits THEN TRUE
              ELSE ScanLenient(p, i + 3)
    ELSE ScanLenient(p, i + 1)

\* lines 72-79: the while loop of is_invalid_path from (1-based) position i
RECURSIVE Scan(_, _)
Scan(p, i) ==
    IF i > Len(p) THEN FALSE
    ELSE IF p[i] = "%"
         THEN IF i + 2 > Len(p) \/ p[i + 1] \notin hex_digits \/ p[i + 2] \notin hex_digits
              THEN TRUE
              ELSE Scan(p, i + 3)
    ELSE Scan(p, i + 1)

\* lines 69-79
is_invalid_path(p) ==
    IF p = <<>> \/ \A i \in 1..Len(p) : p[i] # "%" THEN FALSE ELSE Scan(p, 1)

ws == <<"w", "s">>
websocket == <<"w", "e", "b", "s", "o", "c", "k", "e", "t">>

\* lines 82-100: recurse(d) of has_invalid_ws_path
RECURSIVE recurse(_)
recurse(d) ==
    IF d.kind = "dict"
    THEN LET transport == Get(d, "transport")
         IN \/ /\ transport.kind = "dict"
               /\ \/ /\ Get(transport, "type") \in {Str(ws), Str(websocket)}
                     /\ Get(transport, "path").kind = "str"
                     /\ is_invalid_path(Get(transport, "path").text)
                  \/ recurse(transport)
            \/ \E k \in DOMAIN d.items : recurse(d.items[k])
    ELSE IF d.kind \in {"list", "tuple"}
    THEN \E i \in 1..Len(d.elems) : recurse(d.elems[i])
    ELSE FALSE

\* lines 81-101
has_invalid_ws_path(ob) == recurse(ob)

\* line 122
string_fields == {"password", "uuid", "id", "shortId", "short_id", "alterId", "flow",
                  "method", "host", "path", "server_name"}

\* variant: None becomes the number 0
CoerceNoneAsZero(val) ==
    IF val.kind \in {"int", "float", "bool"} THEN Str(PyStr(val))
    ELSE IF val.kind = "none" THEN PyInt(0)
    ELSE val

\* lines 126-130: what a string field holds after the first loop
Coerce(val) ==
    IF val.kind \in {"int", "float", "bool"} THEN Str(PyStr(val))
    ELSE IF val.kind = "none" THEN Str(<<>>)
    ELSE val

\* lines 118-140: the object ob after sanitize_outbound(ob), which rewrites it in
\* place: the string fields first, then the dicts among its values and the dicts
\* that are items of the lists among its values
RECURSIVE sanitize_outbound(_)
sanitize_outbound(ob) ==
    IF ob.kind # "dict" THEN ob
    ELSE LET coerced == [k \in DOMAIN ob.items |->
                           IF k \in string_fields THEN Coerce(ob.items[k])
                           ELSE ob.items[k]]
             visit(v) == IF v.kind = "dict" THEN sanitize_outbound(v)
                         ELSE IF v.kind = "list"
                         THEN List([i \in 1..Len(v.elems) |->
                                      IF v.elems[i].kind = "dict"
                                      THEN sanitize_outbound(v.elems[i])
                                      ELSE v.elems[i]])
                         ELSE v
         IN Dict([k \in DOMAIN coerced |-> visit(coerced[k])])

\* line 142, ob.copy(): a new dict whose values are the same objects as ob's.
\* After sanitize_outbound(ob.copy()) the object ob has its own scalar values, and
\* under every key that holds a dict or a list the object the copy holds there
OriginalAfter(ob) ==
    IF ob.kind # "dict" THEN ob
    ELSE Dict([k \in DOMAIN ob.items |->
                 IF ob.items[k].kind \in {"dict", "list"}
                 THEN sanitize_outbound(ob).items[k]
                 ELSE ob.items[k]])

\* ---- the outbounds the model draws from ----

Absent == [kind |-> "absent"]
NoFields == [k \in {} |-> Absent]
\* the fields of a dict literal: key: v is left out when v is Absent
Field(key, v, rest) == IF v = Absent THEN rest ELSE (key :> v) @@ rest

\* paths: `%`, a hexadecimal digit and a character that is none
PathChars == {"%", "2", "@"}
Paths == UNION {[1..n -> PathChars] : n \in 0..MaxPathLen}
PathValues == {Absent, PyInt(5), PyNone} \cup {Str(p) : p \in Paths}
TransportTypes == {Absent, Str(ws), Str(websocket), Str(<<"g", "r", "p", "c">>)}
\* the value under a key "transport": a dict with type and path, or a string
Transports ==
    {Str(ws)} \cup
    {Dict(Field("type", t, Field("path", p, NoFields))) :
        t \in TransportTypes, p \in PathValues}

Scalars == {Str(<<"x">>), Str(<<>>), PyInt(0), PyInt(-12), PyFloat(1, 5),
            PyBool(TRUE), PyBool(FALSE), PyNone}

\* where in the outbound the object with the transport is
Placements == {"top", "dict", "list", "list_in_list", "tuple", "transport"}

Outbound(pl, tr, u) ==
    LET base == ("uuid" :> u) @@ ("server_port" :> PyInt(443))
        carrier == Dict("transport" :> tr)
    IN IF pl = "top" THEN Dict(("transport" :> tr) @@ base)
       ELSE IF pl = "dict" THEN Dict(("multiplex" :> carrier) @@ base)
       ELSE IF pl = "list" THEN Dict(("users" :> List(<<carrier>>)) @@ base)
       ELSE IF pl = "list_in_list"
       THEN Dict(("users" :> List(<<List(<<carrier>>)>>)) @@ base)
       ELSE IF pl = "tuple" THEN Dict(("users" :> Tuple(<<carrier>>)) @@ base)
       ELSE Dict(("transport" :> Dict(("type" :> Str(<<"g", "r", "p", "c">>))
                                       @@ ("transport" :> tr))) @@ base)

Outbounds == {Outbound(pl, tr, u) : pl \in Placements, tr \in Transports, u \in Scalars}

----------------------------------------------------------------------------
(* SingBoxRunner: the local control plane (singbox_runner, not in src/) *)

\* `async with SingBoxRunner(...)`: the engine and its handle are acquired
RunnerEnter(e) == [e EXCEPT !.entered = @ + 1]
\* runner.start(outbounds): boots the engine, or raises
RunnerStart(e, outcome) == [e EXCEPT !.started = @ + 1, !.up = outcome]
RunnerStartOutcomes == {"ok", "raise"}
\* leaving the scope / runner.close(): the engine is stopped
RunnerRelease(e) == [e EXCEPT !.released = @ + 1]

----------------------------------------------------------------------------
(* check_nodes *)

CNIdle ==
    /\ cn_pc = "off"
    /\ max_concurrency = 0
    /\ export_link = [n \in Nodes |-> FALSE]
    /\ export_clash_proxy = [n \in Nodes |-> FALSE]
    /\ sem = 0
    /\ one_pc = [n \in Nodes |-> "new"]
    /\ delay = [n \in Nodes |-> Untested]
    /\ healthy_links = <<>>
    /\ healthy_clash = <<>>
    /\ engine = NewEngine
    /\ node_outbound = [n \in Nodes |-> PyNone]
    /\ outbounds = <<>>
    /\ start_arg = <<>>

\* a valid outbound, with a well-formed escape in its websocket path and a number
\* where a string is required, and one with a malformed websocket path
NodeOutbounds ==
    {Outbound("top", Dict(("type" :> Str(ws)) @@ ("path" :> Str(<<"%", "2", "2">>))),
              PyInt(0)),
     Outbound("list", Dict(("type" :> Str(websocket)) @@ ("path" :> Str(<<"2", "%", "2">>))),
              Str(<<"x">>))}

\* lines 103-108: the positions of the outbounds with an invalid websocket path
bad_indices(obs) == {idx \in 1..Len(obs) : has_invalid_ws_path(obs[idx].ob)}

\* variant: nothing is removed
KeepAll(obs, bad) == obs

\* line 112: [ob for idx, ob in enumerate(outbounds) if idx not in bad_indices]
Keep(obs, bad) ==
    LET kept == SelectSeq([idx \in 1..Len(obs) |-> idx], LAMBDA idx : idx \notin bad)
    IN [j \in 1..Len(kept) |-> obs[kept[j]]]

\* the call: line 64, outbounds = [n.outbound for n in nodes]; the model sets the
\* semaphore and the accumulators of lines 146-149 here
CNInit ==
    /\ entry = "check_nodes"
    /\ cn_pc = "filter"
    /\ node_outbound \in [Nodes -> NodeOutbounds]
    /\ outbounds = [n \in Nodes |-> [node |-> n, ob |-> node_outbound[n]]]
    /\ start_arg = <<>>
    /\ max_concurrency \in 0..MaxConcurrency
    /\ export_link \in [Nodes -> BOOLEAN]
    /\ export_clash_proxy \in [Nodes -> BOOLEAN]
    /\ sem = max_concurrency
    /\ one_pc = [n \in Nodes |-> "new"]
    /\ delay = [n \in Nodes |-> Untested]
    /\ healthy_links = <<>>
    /\ healthy_clash = <<>>
    /\ engine = NewEngine

\* lines 103-114: the outbounds with an invalid websocket path are removed
CNFilter ==
    /\ cn_pc = "filter"
    /\ outbounds' = Keep(outbounds, bad_indices(outbounds))
    /\ cn_pc' = "sanitize"
    /\ UNCHANGED <<max_concurrency, export_link, export_clash_proxy, sem, one_pc, delay,
                   healthy_links, healthy_clash, engine, node_outbound, start_arg>>
    /\ UNCHANGED <<entry, rc_vars, p_vars, s_vars, m_vars>>

\* line 142: outbounds = [sanitize_outbound(ob.copy()) for ob in outbounds]
CNSanitize ==
    /\ cn_pc = "sanitize"
    /\ outbounds' = [i \in 1..Len(outbounds) |->
                       [node |-> outbounds[i].node,
                        ob |-> sanitize_outbound(outbounds[i].ob)]]
    /\ node_outbound' = [n \in Nodes |->
                           IF \E i \in 1..Len(outbounds) : outbounds[i].node = n
                           THEN OriginalAfter(node_outbound[n])
                           ELSE node_outbound[n]]
    /\ cn_pc' = "enter"
    /\ UNCHANGED <<max_concurrency, export_link, export_clash_proxy, sem, one_pc, delay,
                   healthy_links, healthy_clash, engine, start_arg>>
    /\ UNCHANGED <<entry, rc_vars, p_vars, s_vars, m_vars>>

\* line 151: async with SingBoxRunner(...) as runner
CNEnter ==
    /\ cn_pc = "enter"
    /\ engine' = RunnerEnter(engine)
    /\ cn_pc' = "start"
    /\ UNCHANGED <<max_concurrency, export_link, export_clash_proxy, sem,
                   one_pc, delay, healthy_links, healthy_clash>>
    /\ UNCHANGED <<entry, b_vars, rc_vars, p_vars, s_vars, m_vars>>

\* line 152: api = await runner.start(outbounds); an exception unwinds the with block
CNStart ==
    /\ cn_pc = "start"
    /\ \E outcome \in RunnerStartOutcomes :
          /\ engine' = RunnerStart(engine, outcome)
          /\ cn_pc' = IF outcome = "ok" THEN "gather" ELSE "unwind"
    /\ start_arg' = outbounds
    /\ UNCHANGED <<max_concurrency, export_link, export_clash_proxy, sem,
                   one_pc, delay, healthy_links, healthy_clash, node_outbound, outbounds>>
    /\ UNCHANGED <<entry, rc_vars, p_vars, s_vars, m_vars>>

\* line 167: gather schedules one(n) for every n in nodes
CNGather ==
    /\ cn_pc = "gather"
    /\ \A n \in Nodes : one_pc[n] = "new"
    /\ one_pc' = [n \in Nodes |-> "acquire"]
    /\ cn_pc' = "await"
    /\ UNCHANGED <<max_concurrency, export_link, export_clash_proxy, sem,
                   delay, healthy_links, healthy_clash, engine>>
    /\ UNCHANGED <<entry, b_vars, rc_vars, p_vars, s_vars, m_vars>>

\* variant: the task issues its delay test without waiting for a free slot
OneAcquireUngated(n) ==
    /\ one_pc[n] = "acquire"
    /\ sem' = sem - 1
    /\ one_pc' = [one_pc EXCEPT ![n] = "testing"]
    /\ UNCHANGED <<cn_pc, max_concurrency, export_link, export_clash_proxy,
                   delay, healthy_links, healthy_clash, engine>>
    /\ UNCHANGED <<entry, b_vars, rc_vars, p_vars, s_vars, m_vars>>

\* lines 155-157: async with sem admits the task, which issues its delay test
OneAcquire(n) ==
    /\ one_pc[n] = "acquire"
    /\ sem > 0
    /\ sem' = sem - 1
    /\ one_pc' = [one_pc EXCEPT ![n] = "testing"]
    /\ UNCHANGED <<cn_pc, max_concurrency, export_link, export_clash_proxy,
                   delay, healthy_links, healthy_clash, engine>>
    /\ UNCHANGED <<entry, b_vars, rc_vars, p_vars, s_vars, m_vars>>

\* variant: `if not d: return` instead of `if d is None: return`
OneReturnsTruthy(n, d) ==
    /\ one_pc[n] = "testing"
    /\ delay' = [delay EXCEPT ![n] = d]
    /\ healthy_links' = IF d.present /\ d.ms # 0 /\ export_link[n]
                        THEN Append(healthy_links, n) ELSE healthy_links
    /\ healthy_clash' = IF d.present /\ d.ms # 0 /\ export_clash_proxy[n]
                        THEN Append(healthy_clash, n) ELSE healthy_clash
    /\ sem' = sem + 1
    /\ one_pc' = [one_pc EXCEPT ![n] = "done"]
    /\ UNCHANGED <<cn_pc, max_concurrency, export_link, export_clash_proxy, engine>>
    /\ UNCHANGED <<entry, b_vars, rc_vars, p_vars, s_vars, m_vars>>

\* lines 157-165: delay_test returned d; the appends and the release of sem follow
\* without a suspension point
OneReturns(n, d) ==
    /\ one_pc[n] = "testing"
    /\ delay' = [delay EXCEPT ![n] = d]
    /\ healthy_links' = IF d.present /\ export_link[n]
                        THEN Append(healthy_links, n) ELSE healthy_links
    /\ healthy_clash' = IF d.present /\ export_clash_proxy[n]
                        THEN Append(healthy_clash, n) ELSE healthy_clash
    /\ sem' = sem + 1
    /\ one_pc' = [one_pc EXCEPT ![n] = "done"]
    /\ UNCHANGED <<cn_pc, max_concurrency, export_link, export_clash_proxy, engine>>
    /\ UNCHANGED <<entry, b_vars, rc_vars, p_vars, s_vars, m_vars>>

\* variant: no `except Exception`: the exception leaves one(n) and gather hands
\* it to check_nodes
OneRaisesUncaught(n) ==
    /\ one_pc[n] = "testing"
    /\ cn_pc = "await"
    /\ delay' = [delay EXCEPT ![n] = Raised]
    /\ sem' = sem + 1
    /\ one_pc' = [one_pc EXCEPT ![n] = "done"]
    /\ cn_pc' = "unwind"
    /\ UNCHANGED <<max_concurrency, export_link, export_clash_proxy,
                   healthy_links, healthy_clash, engine>>
    /\ UNCHANGED <<entry, b_vars, rc_vars, p_vars, s_vars, m_vars>>

\* lines 158-159: delay_test raised; except Exception: return
OneRaises(n) ==
    /\ one_pc[n] = "testing"
    /\ delay' = [delay EXCEPT ![n] = Raised]
    /\ sem' = sem + 1
    /\ one_pc' = [one_pc EXCEPT ![n] = "done"]
    /\ UNCHANGED <<cn_pc, max_concurrency, export_link, export_clash_proxy,
                   healthy_links, healthy_clash, engine>>
    /\ UNCHANGED <<entry, b_vars, rc_vars, p_vars, s_vars, m_vars>>

\* variant: the with block is left without awaiting gather
CNReturnEarly ==
    /\ cn_pc = "await"
    /\ engine' = RunnerRelease(engine)
    /\ cn_pc' = "returned"
    /\ UNCHANGED <<max_concurrency, export_link, export_clash_proxy, sem,
                   one_pc, delay, healthy_links, healthy_clash>>
    /\ UNCHANGED <<entry, b_vars, rc_vars, p_vars, s_vars, m_vars>>

\* lines 167-169: gather has every result; the with block is left and the
\* CheckResult returned
CNReturn ==
    /\ cn_pc = "await"
    /\ \A n \in Nodes : one_pc[n] = "done"
    /\ engine' = RunnerRelease(engine)
    /\ cn_pc' = "returned"
    /\ UNCHANGED <<max_concurrency, export_link, export_clash_proxy, sem,
                   one_pc, delay, healthy_links, healthy_clash>>
    /\ UNCHANGED <<entry, b_vars, rc_vars, p_vars, s_vars, m_vars>>

\* line 151: an exception leaves the with block: the runner is released and the
\* exception goes on to the caller
CNUnwind ==
    /\ cn_pc = "unwind"
    /\ engine' = RunnerRelease(engine)
    /\ cn_pc' = "raised"
    /\ UNCHANGED <<max_concurrency, export_link, export_clash_proxy, sem,
                   one_pc, delay, healthy_links, healthy_clash>>
    /\ UNCHANGED <<entry, b_vars, rc_vars, p_vars, s_vars, m_vars>>

CNNext ==
    \/ CNFilter
    \/ CNSanitize
    \/ CNEnter
    \/ CNStart
    \/ CNGather
    \/ \E n \in Nodes : OneAcquire(n)
    \/ \E n \in Nodes, d \in NodeDelays : OneReturns(n, d)
    \/ \E n \in Nodes : OneRaises(n)
    \/ CNReturn
    \/ CNUnwind


----------------------------------------------------------------------------
(* reachable_from_country *)

Max(a, b) == IF a >= b THEN a ELSE b

\* the probe nodes of the target country, as get_nodes names them
ProbeNames == <<"A", "B", "C">>

\* endpoints = list(endpoints)[:max_endpoints]
Tested == {e \in Endpoints : e <= max_endpoints}

\* delays the confirm delay test can report
ConfirmDelays == {None, Delay(-1), Delay(0), Delay(1), Delay(max_delay_ms),
                  Delay(max_delay_ms + 1)}

\* responses to GET /check-tcp: status ("neterr": the request itself raised), kind of
\* body, whether data.get("ok") == 1, and the request_id of the body
SubmitResponses ==
    {[status |-> "neterr", body |-> "none", ok |-> FALSE, request_id |-> "missing"],
     [status |-> "500", body |-> "dict", ok |-> TRUE, request_id |-> "abc"],
     [status |-> "200", body |-> "undecodable", ok |-> FALSE, request_id |-> "missing"],
     [status |-> "200", body |-> "not_dict", ok |-> FALSE, request_id |-> "missing"]}
    \cup {[status |-> "200", body |-> "dict", ok |-> o, request_id |-> i] :
             o \in BOOLEAN, i \in {"missing", "", "abc"}}

\* _start_tcp_check, lines 123-131: "raise", "py_None" (None) or the string
\* str(data.get("request_id"))
StartTcpCheck(r) ==
    IF r.status = "neterr" THEN "raise"
    ELSE IF r.status # "200" THEN "py_None"
    ELSE IF r.body = "undecodable" THEN "raise"
    ELSE IF r.body = "dict" /\ r.ok
         THEN (IF r.request_id = "missing" THEN "None" ELSE r.request_id)
    ELSE "py_None"

\* truth value of a request identifier: `if not rid`
Truthy(x) == x \notin {"py_None", ""}

\* what _poll_tcp_result can give its caller (see the poll loop below)
PollResults == {"true", "false", "raise"}

RCIdle ==
    /\ rc_pc = "off"
    /\ singbox_path = FALSE
    /\ concurrency = 0
    /\ max_endpoints = 0
    /\ node_names = <<>>
    /\ rc_sem = 0
    /\ runner = FALSE
    /\ api = FALSE
    /\ rc_engine = NewEngine
    /\ test_pc = [e \in Endpoints |-> "new"]
    /\ rid = [e \in Endpoints |-> "untested"]
    /\ success_tcp = [e \in Endpoints |-> "untested"]
    /\ confirm = [e \in Endpoints |-> Untested]
    /\ ok = <<>>
    /\ fetches = 0
    /\ submit_names = [e \in Endpoints |-> <<>>]
    /\ poll_names = [e \in Endpoints |-> <<>>]

\* the call of reachable_from_country
RCInit ==
    /\ entry = "reachable_from_country"
    /\ rc_pc = "get_nodes"
    /\ singbox_path \in BOOLEAN
    /\ concurrency \in 0..MaxConcurrency
    /\ max_endpoints \in 0..NumEndpoints
    /\ node_names = <<>>
    /\ rc_sem = 0
    /\ runner = FALSE
    /\ api = FALSE
    /\ rc_engine = NewEngine
    /\ test_pc = [e \in Endpoints |-> "new"]
    /\ rid = [e \in Endpoints |-> "untested"]
    /\ success_tcp = [e \in Endpoints |-> "untested"]
    /\ confirm = [e \in Endpoints |-> Untested]
    /\ ok = <<>>
    /\ fetches = 0
    /\ submit_names = [e \in Endpoints |-> <<>>]
    /\ poll_names = [e \in Endpoints |-> <<>>]

\* variant: no `if not node_names: return []`
RCGetNodesNoEmptyCheck ==
    /\ rc_pc = "get_nodes"
    /\ fetches' = fetches + 1
    /\ \E outcome \in {"raise", "empty", "nodes"} :
          /\ rc_pc' = IF outcome = "raise" THEN "raised" ELSE "engine"
          /\ node_names' = IF outcome = "nodes" THEN ProbeNames ELSE <<>>
          /\ rc_sem' = IF outcome # "raise" THEN Max(1, concurrency) ELSE rc_sem
    /\ UNCHANGED <<singbox_path, concurrency, max_endpoints, runner, api, rc_engine,
                   test_pc, rid, success_tcp, confirm, ok, submit_names, poll_names>>
    /\ UNCHANGED <<entry, cn_vars, p_vars, s_vars, m_vars>>

\* lines 72-80: get_nodes raises (HTTP error), or gives the probe nodes; with none
\* the function returns []; otherwise sem = Semaphore(max(1, concurrency))
RCGetNodes ==
    /\ rc_pc = "get_nodes"
    /\ fetches' = fetches + 1
    /\ \E outcome \in {"raise", "empty", "nodes"} :
          /\ rc_pc' = CASE outcome = "raise" -> "raised"
                        [] outcome = "empty" -> "returned"
                        [] OTHER -> "engine"
          /\ node_names' = IF outcome = "nodes" THEN ProbeNames ELSE <<>>
          /\ rc_sem' = IF outcome = "nodes" THEN Max(1, concurrency) ELSE rc_sem
    /\ UNCHANGED <<singbox_path, concurrency, max_endpoints, runner, api, rc_engine,
                   test_pc, rid, success_tcp, confirm, ok, submit_names, poll_names>>
    /\ UNCHANGED <<entry, cn_vars, p_vars, s_vars, m_vars>>

\* variant: no try/except around runner.start: its exception leaves the function
RCEngineFatal ==
    /\ rc_pc = "engine"
    /\ IF singbox_path
       THEN \E outcome \in RunnerStartOutcomes :
               /\ runner' = TRUE
               /\ rc_engine' = RunnerStart(rc_engine, outcome)
               /\ api' = (outcome = "ok")
               /\ rc_pc' = IF outcome = "ok" THEN "gather" ELSE "raised"
       ELSE /\ UNCHANGED <<runner, api, rc_engine>>
            /\ rc_pc' = "gather"
    /\ UNCHANGED <<singbox_path, concurrency, max_endpoints, node_names, rc_sem,
                   test_pc, rid, success_tcp, confirm, ok>>
    /\ UNCHANGED <<entry, q_vars, cn_vars, p_vars, s_vars, m_vars>>

\* lines 82-90: with a singbox_path the runner is built and started; an exception
\* of start is caught and leaves api unset ("TCP only")
RCEngine ==
    /\ rc_pc = "engine"
    /\ IF singbox_path
       THEN \E outcome \in RunnerStartOutcomes :
               /\ runner' = TRUE
               /\ rc_engine' = RunnerStart(rc_engine, outcome)
               /\ api' = (outcome = "ok")
       ELSE UNCHANGED <<runner, api, rc_engine>>
    /\ rc_pc' = "gather"
    /\ UNCHANGED <<singbox_path, concurrency, max_endpoints, node_names, rc_sem,
                   test_pc, rid, success_tcp, confirm, ok>>
    /\ UNCHANGED <<entry, q_vars, cn_vars, p_vars, s_vars, m_vars>>

\* line 113: gather schedules test_one(ep) for every endpoint kept
RCGather ==
    /\ rc_pc = "gather"
    /\ test_pc' = [e \in Endpoints |-> IF e \in Tested THEN "acquire" ELSE "new"]
    /\ rc_pc' = "await"
    /\ UNCHANGED <<singbox_path, concurrency, max_endpoints, node_names, rc_sem, runner,
                   api, rc_engine, rid, success_tcp, confirm, ok>>
    /\ UNCHANGED <<entry, q_vars, cn_vars, p_vars, s_vars, m_vars>>

\* lines 93-94: async with sem admits the task, which issues its submit request
TestAcquire(e) ==
    /\ test_pc[e] = "acquire"
    /\ rc_sem > 0
    /\ rc_sem' = rc_sem - 1
    /\ test_pc' = [test_pc EXCEPT ![e] = "submit"]
    /\ UNCHANGED <<rc_pc, singbox_path, concurrency, max_endpoints, node_names, runner,
                   api, rc_engine, rid, success_tcp, confirm, ok>>
    /\ UNCHANGED <<entry, q_vars, cn_vars, p_vars, s_vars, m_vars>>

\* variant: a failed submit keeps its limiter slot (no release on `return`)
SubmitKeepsSlot(e, r) ==
    /\ test_pc[e] = "submit"
    /\ submit_names' = [submit_names EXCEPT ![e] = node_names]
    /\ rid' = [rid EXCEPT ![e] = StartTcpCheck(r)]
    /\ IF StartTcpCheck(r) = "raise"
       THEN /\ test_pc' = [test_pc EXCEPT ![e] = "failed"]
            /\ rc_sem' = rc_sem + 1
       ELSE IF ~Truthy(StartTcpCheck(r))
       THEN /\ test_pc' = [test_pc EXCEPT ![e] = "done"]
            /\ rc_sem' = rc_sem
       ELSE /\ test_pc' = [test_pc EXCEPT ![e] = "poll"]
            /\ rc_sem' = rc_sem
    /\ UNCHANGED <<rc_pc, singbox_path, concurrency, max_endpoints, node_names, runner,
                   api, rc_engine, success_tcp, confirm, ok>>
    /\ UNCHANGED <<entry, fetches, poll_names, cn_vars, p_vars, s_vars, m_vars>>

\* variant: a failed submit is issued again
SubmitRetries(e, r) ==
    /\ test_pc[e] = "submit"
    /\ submit_names' = [submit_names EXCEPT ![e] = node_names]
    /\ rid' = [rid EXCEPT ![e] = StartTcpCheck(r)]
    /\ IF StartTcpCheck(r) = "raise"
       THEN /\ test_pc' = [test_pc EXCEPT ![e] = "failed"]
            /\ rc_sem' = rc_sem + 1
       ELSE IF ~Truthy(StartTcpCheck(r))
       THEN /\ test_pc' = [test_pc EXCEPT ![e] = "submit"]
            /\ rc_sem' = rc_sem
       ELSE /\ test_pc' = [test_pc EXCEPT ![e] = "poll"]
            /\ rc_sem' = rc_sem
    /\ UNCHANGED <<rc_pc, singbox_path, concurrency, max_endpoints, node_names, runner,
                   api, rc_engine, success_tcp, confirm, ok>>
    /\ UNCHANGED <<entry, fetches, poll_names, cn_vars, p_vars, s_vars, m_vars>>

\* lines 94-96: _start_tcp_check gives rid, or raises: nothing in test_one catches
\* it, the exception leaves `async with sem` (the slot is given back) and the task
Submit(e, r) ==
    /\ test_pc[e] = "submit"
    /\ submit_names' = [submit_names EXCEPT ![e] = node_names]
    /\ rid' = [rid EXCEPT ![e] = StartTcpCheck(r)]
    /\ IF StartTcpCheck(r) = "raise"
       THEN /\ test_pc' = [test_pc EXCEPT ![e] = "failed"]
            /\ rc_sem' = rc_sem + 1
       ELSE IF ~Truthy(StartTcpCheck(r))
       THEN /\ test_pc' = [test_pc EXCEPT ![e] = "done"]
            /\ rc_sem' = rc_sem + 1
       ELSE /\ test_pc' = [test_pc EXCEPT ![e] = "poll"]
            /\ rc_sem' = rc_sem
    /\ UNCHANGED <<rc_pc, singbox_path, concurrency, max_endpoints, node_names, runner,
                   api, rc_engine, success_tcp, confirm, ok>>
    /\ UNCHANGED <<entry, fetches, poll_names, cn_vars, p_vars, s_vars, m_vars>>

\* lines 97-101, 110: _poll_tcp_result gives False (return), raises (uncaught), or
\* gives True: with api and runner the confirm delay test is issued, without them
\* the endpoint is appended to ok
Poll(e, res) ==
    /\ test_pc[e] = "poll"
    /\ poll_names' = [poll_names EXCEPT ![e] = node_names]
    /\ success_tcp' = [success_tcp EXCEPT ![e] = res]
    /\ CASE res = "raise" ->
              /\ test_pc' = [test_pc EXCEPT ![e] = "failed"]
              /\ rc_sem' = rc_sem + 1
              /\ ok' = ok
         [] res = "false" ->
              /\ test_pc' = [test_pc EXCEPT ![e] = "done"]
              /\ rc_sem' = rc_sem + 1
              /\ ok' = ok
         [] OTHER ->
              IF api /\ runner
              THEN /\ test_pc' = [test_pc EXCEPT ![e] = "confirm"]
                   /\ rc_sem' = rc_sem
                   /\ ok' = ok
              ELSE /\ test_pc' = [test_pc EXCEPT ![e] = "done"]
                   /\ rc_sem' = rc_sem + 1
                   /\ ok' = Append(ok, e)
    /\ UNCHANGED <<rc_pc, singbox_path, concurrency, max_endpoints, node_names, runner,
                   api, rc_engine, rid, confirm>>
    /\ UNCHANGED <<entry, fetches, submit_names, cn_vars, p_vars, s_vars, m_vars>>

\* variant: `delay >= max_delay_ms` instead of `delay > max_delay_ms`
ConfirmReturnsStrict(e, d) ==
    /\ test_pc[e] = "confirm"
    /\ confirm' = [confirm EXCEPT ![e] = d]
    /\ ok' = IF ~d.present \/ d.ms >= max_delay_ms \/ d.ms <= 0 THEN ok ELSE Append(ok, e)
    /\ rc_sem' = rc_sem + 1
    /\ test_pc' = [test_pc EXCEPT ![e] = "done"]
    /\ UNCHANGED <<rc_pc, singbox_path, concurrency, max_endpoints, node_names, runner,
                   api, rc_engine, rid, success_tcp>>
    /\ UNCHANGED <<entry, q_vars, cn_vars, p_vars, s_vars, m_vars>>

\* lines 103-106, 110: the confirm delay test returned d; the gate, then ok.append
ConfirmReturns(e, d) ==
    /\ test_pc[e] = "confirm"
    /\ confirm' = [confirm EXCEPT ![e] = d]
    /\ ok' = IF ~d.present \/ d.ms > max_delay_ms \/ d.ms <= 0 THEN ok ELSE Append(ok, e)
    /\ rc_sem' = rc_sem + 1
    /\ test_pc' = [test_pc EXCEPT ![e] = "done"]
    /\ UNCHANGED <<rc_pc, singbox_path, concurrency, max_endpoints, node_names, runner,
                   api, rc_engine, rid, success_tcp>>
    /\ UNCHANGED <<entry, q_vars, cn_vars, p_vars, s_vars, m_vars>>

\* lines 107-110: the confirm delay test raised; except Exception: pass, and the
\* code goes on to ok.append(ep)
ConfirmRaises(e) ==
    /\ test_pc[e] = "confirm"
    /\ confirm' = [confirm EXCEPT ![e] = Raised]
    /\ ok' = Append(ok, e)
    /\ rc_sem' = rc_sem + 1
    /\ test_pc' = [test_pc EXCEPT ![e] = "done"]
    /\ UNCHANGED <<rc_pc, singbox_path, concurrency, max_endpoints, node_names, runner,
                   api, rc_engine, rid, success_tcp>>
    /\ UNCHANGED <<entry, q_vars, cn_vars, p_vars, s_vars, m_vars>>

\* line 113: gather (return_exceptions unset) hands the first exception of a task
\* to reachable_from_country, which has no handler: lines 115-119 are skipped; the
\* other tasks are not cancelled
RCPropagate ==
    /\ rc_pc = "await"
    /\ \E e \in Endpoints : test_pc[e] = "failed"
    /\ rc_pc' = "raised"
    /\ UNCHANGED <<singbox_path, concurrency, max_endpoints, node_names, rc_sem, runner,
                   api, rc_engine, test_pc, rid, success_tcp, confirm, ok>>
    /\ UNCHANGED <<entry, q_vars, cn_vars, p_vars, s_vars, m_vars>>

\* lines 113-119: every task ended without an exception; the runner, when set, is
\* closed and ok returned
RCReturn ==
    /\ rc_pc = "await"
    /\ \A e \in Tested : test_pc[e] = "done"
    /\ rc_engine' = IF runner THEN RunnerRelease(rc_engine) ELSE rc_engine
    /\ rc_pc' = "returned"
    /\ UNCHANGED <<singbox_path, concurrency, max_endpoints, node_names, rc_sem, runner,
                   api, test_pc, rid, success_tcp, confirm, ok>>
    /\ UNCHANGED <<entry, q_vars, cn_vars, p_vars, s_vars, m_vars>>

RCNext ==
    \/ RCGetNodes
    \/ RCEngine
    \/ RCGather
    \/ \E e \in Endpoints : TestAcquire(e)
    \/ \E e \in Endpoints, r \in SubmitResponses : Submit(e, r)
    \/ \E e \in Endpoints, res \in PollResults : Poll(e, res)
    \/ \E e \in Endpoints, d \in ConfirmDelays : ConfirmReturns(e, d)
    \/ \E e \in Endpoints : ConfirmRaises(e)
    \/ RCPropagate
    \/ RCReturn

----------------------------------------------------------------------------
(* _poll_tcp_result *)

\* keys a poll response can carry, and the node_names lists polled with
ProbeKeys == {"A", "B", "C"}
NodeNameLists == {<<"A", "B">>, <<"A", "B", "C">>}

\* a result object: whether it has a `time` key, an `error` key (an item that is
\* not an object is passed over like EmptyItem)
OkItem == [time |-> TRUE, error |-> FALSE]
TimeErrorItem == [time |-> TRUE, error |-> TRUE]
EmptyItem == [time |-> FALSE, error |-> FALSE]
ResultItems == {OkItem, TimeErrorItem, EmptyItem}

\* the value of one probe node's key: null/absent, or an array of result objects
Null == [is_list |-> FALSE, items |-> <<>>]
ResultList(items) == [is_list |-> TRUE, items |-> items]
ResultValues ==
    {Null} \cup {ResultList(s) : s \in UNION {[1..k -> ResultItems] : k \in 0..MaxResults}}

NoData == [k \in ProbeKeys |-> Null]

\* responses to GET /check-result/<id>: status ("neterr": the request itself
\* raised), kind of body, and the decoded object
PollResponses ==
    {[status |-> "neterr", body |-> "none", data |-> NoData],
     [status |-> "500", body |-> "dict", data |-> NoData],
     [status |-> "200", body |-> "undecodable", data |-> NoData],
     [status |-> "200", body |-> "not_dict", data |-> NoData]}
    \cup {[status |-> "200", body |-> "dict", data |-> f] : f \in [ProbeKeys -> ResultValues]}

\* line 153: "time" in item and "error" not in item
ItemSucceeds(item) == item.time /\ ~item.error

\* variant: no `break`: every successful result object is counted
RECURSIVE NodeSuccessesNoBreak(_, _)
NodeSuccessesNoBreak(items, i) ==
    IF i > Len(items) THEN 0
    ELSE (IF ItemSucceeds(items[i]) THEN 1 ELSE 0) + NodeSuccessesNoBreak(items, i + 1)

\* lines 152-155: the inner loop from item i on: 1 at the first successful result
\* object (break), 0 when there is none
RECURSIVE NodeSuccesses(_, _)
NodeSuccesses(items, i) ==
    IF i > Len(items) THEN 0
    ELSE IF ItemSucceeds(items[i]) THEN 1
    ELSE NodeSuccesses(items, i + 1)

\* lines 148-155: success_count over node_names[k..]
RECURSIVE SuccessCount(_, _, _)
SuccessCount(names, k, data) ==
    IF k > Len(names) THEN 0
    ELSE (IF data[names[k]].is_list THEN NodeSuccesses(data[names[k]].items, 1) ELSE 0)
         + SuccessCount(names, k + 1, data)

\* lines 139-155: what one attempt makes of response r before the quorum test:
\* "raise" (the request or r.json() raised), "retry" (not a 200, or not an object:
\* sleep and loop) or "counted" (success_count is computed)
Receive(r) ==
    IF r.status = "neterr" THEN "raise"
    ELSE IF r.status # "200" THEN "retry"
    ELSE IF r.body = "undecodable" THEN "raise"
    ELSE IF r.body # "dict" THEN "retry"
    ELSE "counted"

\* lines 156-158: the quorum test on a counted response
Decide(received, success_count, q) ==
    IF received # "counted" THEN received
    ELSE IF success_count >= q THEN "true"
    ELSE "retry"

\* the probe nodes of a response that report a result object with `time` and
\* without `error` (recorded for the properties)
Successful(r) ==
    {k \in ProbeKeys :
        /\ r.data[k].is_list
        /\ \E i \in 1..Len(r.data[k].items) :
              r.data[k].items[i].time /\ ~r.data[k].items[i].error}

WellFormed(r) == r.status = "200" /\ r.body = "dict"

NoAttempt ==
    [kind |-> "none", well_formed |-> FALSE, successful |-> {}, received |-> "none",
     success_count |-> 0, did |-> "none"]

\* one attempt on response r up to the quorum test, with what the properties
\* need of r: its kind and the probes that succeeded in it
AttemptRecord(r, names) ==
    [kind |-> r.status, well_formed |-> WellFormed(r), successful |-> Successful(r),
     received |-> Receive(r),
     success_count |-> IF Receive(r) = "counted" THEN SuccessCount(names, 1, r.data) ELSE 0,
     did |-> "none"]

\* the attempts on every response of PollResponses, by node_names
AttemptOutcomes ==
    [names \in NodeNameLists |-> {AttemptRecord(r, names) : r \in PollResponses}]

PIdle ==
    /\ p_pc = "off"
    /\ p_node_names = <<>>
    /\ min_success = 0
    /\ max_wait = 0
    /\ now = 0
    /\ deadline = 0
    /\ p_result = "none"
    /\ p_last = NoAttempt

\* the call, line 136: deadline = time() + max_wait
PInit ==
    /\ entry = "_poll_tcp_result"
    /\ p_pc = "loop"
    /\ p_node_names \in NodeNameLists
    /\ min_success \in 0..MaxQuorum
    /\ max_wait \in 0..MaxWait
    /\ now = 0
    /\ deadline = max_wait * TicksPerSecond
    /\ p_result = "none"
    /\ p_last = NoAttempt

\* lines 138, 159: while time() < deadline; past the deadline return False
PollLoopTest ==
    /\ p_pc = "loop"
    /\ IF now < deadline
       THEN p_pc' = "request" /\ p_result' = p_result
       ELSE p_pc' = "done" /\ p_result' = "false"
    /\ UNCHANGED <<p_node_names, min_success, max_wait, now, deadline, p_last>>
    /\ UNCHANGED <<entry, cn_vars, rc_vars, s_vars, m_vars>>

\* lines 139-158: the request takes t ticks and is answered by some response of
\* PollResponses; a is the attempt on it
PollAttempt(a, t) ==
    /\ p_pc = "request"
    /\ a \in AttemptOutcomes[p_node_names]
    /\ now' = now + t
    /\ p_last' = [a EXCEPT !.did = Decide(a.received, a.success_count, min_success)]
    /\ CASE Decide(a.received, a.success_count, min_success) = "raise" ->
              p_pc' = "done" /\ p_result' = "raise"
         [] Decide(a.received, a.success_count, min_success) = "true" ->
              p_pc' = "done" /\ p_result' = "true"
         [] OTHER ->
              p_pc' = "sleep" /\ p_result' = p_result
    /\ UNCHANGED <<p_node_names, min_success, max_wait, deadline>>
    /\ UNCHANGED <<entry, cn_vars, rc_vars, s_vars, m_vars>>

\* variant: the retry does not wait
PollSleepZero ==
    /\ p_pc = "sleep"
    /\ now' = now
    /\ p_pc' = "loop"
    /\ UNCHANGED <<p_node_names, min_success, max_wait, deadline, p_result, p_last>>
    /\ UNCHANGED <<entry, cn_vars, rc_vars, s_vars, m_vars>>

\* lines 141, 145, 158: await asyncio.sleep(0.5), then the loop test again
PollSleep ==
    /\ p_pc = "sleep"
    /\ now' = now + 1
    /\ p_pc' = "loop"
    /\ UNCHANGED <<p_node_names, min_success, max_wait, deadline, p_result, p_last>>
    /\ UNCHANGED <<entry, cn_vars, rc_vars, s_vars, m_vars>>

PNext ==
    \/ PollLoopTest
    \/ /\ p_pc = "request"
       /\ \E a \in AttemptOutcomes[p_node_names], t \in 0..MaxRequestTicks :
             PollAttempt(a, t)
    \/ PollSleep

----------------------------------------------------------------------------
(* The sanitizer of check_nodes, applied to one outbound *)

SIdle ==
    /\ s_pc = "off"
    /\ s_given = PyNone
    /\ s_ob = PyNone
    /\ s_invalid = FALSE
    /\ s_clean = PyNone
    /\ s_again = PyNone

\* line 64: outbounds = [n.outbound for n in nodes], one of them
SInit ==
    /\ entry = "sanitizer"
    /\ s_pc = "given"
    /\ s_given \in Outbounds
    /\ s_ob = s_given
    /\ s_invalid = FALSE
    /\ s_clean = PyNone
    /\ s_again = PyNone

\* lines 104-105: if has_invalid_ws_path(ob)
SCheckPath ==
    /\ s_pc = "given"
    /\ s_invalid' = has_invalid_ws_path(s_ob)
    /\ s_pc' = "checked"
    /\ UNCHANGED <<s_given, s_ob, s_clean, s_again>>
    /\ UNCHANGED <<entry, cn_vars, rc_vars, p_vars, m_vars>>

\* line 142: sanitize_outbound(ob.copy())
SSanitize ==
    /\ s_pc = "checked"
    /\ s_clean' = sanitize_outbound(s_ob)
    /\ s_ob' = OriginalAfter(s_ob)
    /\ s_pc' = "sanitized"
    /\ UNCHANGED <<s_given, s_invalid, s_again>>
    /\ UNCHANGED <<entry, cn_vars, rc_vars, p_vars, m_vars>>

\* lines 118-140: sanitize_outbound applied to its own result
SSanitizeAgain ==
    /\ s_pc = "sanitized"
    /\ s_again' = sanitize_outbound(s_clean)
    /\ s_ob' = OriginalAfter(s_ob)
    /\ s_pc' = "again"
    /\ UNCHANGED <<s_given, s_invalid, s_clean>>
    /\ UNCHANGED <<entry, cn_vars, rc_vars, p_vars, m_vars>>

SNext == SCheckPath \/ SSanitize \/ SSanitizeAgain

----------------------------------------------------------------------------
(* main: the orchestrator (src/run_once.py) *)

\* truth value of a Python value
IsTruthy(v) ==
    IF v.kind = "none" THEN FALSE
    ELSE IF v.kind = "str" THEN v.text # <<>>
    ELSE IF v.kind = "int" THEN v.n # 0
    ELSE TRUE

RECURSIVE LStrip(_)
LStrip(t) == IF t # <<>> /\ Head(t) = " " THEN LStrip(Tail(t)) ELSE t

RECURSIVE RStrip(_)
RStrip(t) == IF t # <<>> /\ t[Len(t)] = " " THEN RStrip(SubSeq(t, 1, Len(t) - 1)) ELSE t

\* str.strip()
Strip(t) == RStrip(LStrip(t))

\* lines 66 and 79: str(x or "").strip()
StrOrEmpty(v) ==
    Strip(IF ~IsTruthy(v) THEN <<>> ELSE IF v.kind = "str" THEN v.text ELSE PyStr(v))

IsDigits(t) == t # <<>> /\ \A i \in 1..Len(t) : \E d \in 1..10 : DigitChars[d] = t[i]

RECURSIVE DigitsValue(_)
DigitsValue(t) ==
    IF t = <<>> THEN 0
    ELSE 10 * DigitsValue(SubSeq(t, 1, Len(t) - 1))
         + ((CHOOSE d \in 1..10 : DigitChars[d] = t[Len(t)]) - 1)

\* lines 67 and 80: int(x): the number, or an exception (None, a string that is no
\* number)
IntOf(v) ==
    IF v.kind = "int" THEN [raised |-> FALSE, n |-> v.n]
    ELSE IF v.kind = "str" /\ IsDigits(Strip(v.text))
    THEN [raised |-> FALSE, n |-> DigitsValue(Strip(v.text))]
    ELSE [raised |-> TRUE, n |-> 0]

\* Endpoint.hostport, check_host.py lines 24-26
hostport(ep) == ep.host \o <<":">> \o IntStr(ep.port)

\* ---- what a CheckResult can hold ----

RawHosts == {PyNone, Str(<<" ", "a">>), Str(<<"a">>), Str(<<"b">>)}
RawPorts == {PyNone, PyInt(0), PyInt(80), Str(<<"8", "0">>)}
RawNames == {PyNone, Str(<<"n">>)}

\* a healthy link, as what node_from_share_link makes of it: an exception, or a
\* node with server and server_port in its outbound
LinkNodes ==
    {[parsed |-> FALSE, server |-> PyNone, server_port |-> PyNone]} \cup
    {[parsed |-> TRUE, server |-> h, server_port |-> q] : h \in RawHosts, q \in RawPorts}

\* a healthy clash proxy
ClashProxies == {[server |-> h, port |-> q, name |-> nm] :
                    h \in RawHosts, q \in RawPorts, nm \in RawNames}

\* the text of the i-th healthy link
LinkText(i) == <<"l">> \o NatStr(i)

\* how many healthy links and healthy clash proxies a CheckResult has
ResultSizes == {x \in (0..MaxCandidates) \X (0..MaxCandidates) : x[1] + x[2] <= MaxCandidates}

\* the CheckResults of the runs of the whole of main
MainResults ==
    LET l1 == [parsed |-> TRUE, server |-> Str(<<" ", "a">>), server_port |-> Str(<<"8", "0">>)]
        l2 == [parsed |-> TRUE, server |-> PyNone, server_port |-> PyInt(0)]
        c1 == [server |-> Str(<<"a">>), port |-> PyInt(80), name |-> Str(<<"n">>)]
        c2 == [server |-> Str(<<"b">>), port |-> PyInt(80), name |-> PyNone]
        l3 == [parsed |-> TRUE, server |-> Str(<<"a">>), server_port |-> PyInt(-1)]
        c3 == [server |-> Str(<<"b">>), port |-> PyInt(70000), name |-> PyNone]
    IN {[links |-> <<>>, clash |-> <<>>],
        [links |-> <<l1>>, clash |-> <<c1>>],
        [links |-> <<l2>>, clash |-> <<c2>>],
        [links |-> <<l1>>, clash |-> <<c2>>],
        [links |-> <<l3>>, clash |-> <<c3>>]}

NoEndpoint == [host |-> <<>>, port |-> 0, line |-> <<>>]

\* lines 65-69: the Endpoint of the i-th healthy link, or nothing (an exception,
\* an empty host, a port 0)
LinkCandidate(c, i) ==
    LET host == StrOrEmpty(c.server)
        port == IntOf(c.server_port)
    IN IF ~c.parsed \/ port.raised \/ host = <<>> \/ port.n = 0
       THEN [skip |-> TRUE, ep |-> NoEndpoint]
       ELSE [skip |-> FALSE, ep |-> [host |-> host, port |-> port.n, line |-> LinkText(i)]]

\* lines 78-84: the Endpoint of a healthy clash proxy, or nothing
ProxyCandidate(c) ==
    LET host == StrOrEmpty(c.server)
        port == IntOf(c.port)
        name == StrOrEmpty(c.name)
    IN IF port.raised \/ host = <<>> \/ port.n = 0
       THEN [skip |-> TRUE, ep |-> NoEndpoint]
       ELSE [skip |-> FALSE,
             ep |-> [host |-> host, port |-> port.n,
                     line |-> host \o <<":">> \o IntStr(port.n)
                              \o (IF name # <<>> THEN <<"\t">> \o name ELSE <<>>)]]

\* variant: an Endpoint whose hostport was seen replaces the one in the list
AddEndpointLastWins(acc, cand) ==
    IF cand.skip THEN acc
    ELSE IF hostport(cand.ep) \in acc.seen
    THEN [seen |-> acc.seen,
          endpoints |-> [i \in 1..Len(acc.endpoints) |->
                           IF hostport(acc.endpoints[i]) = hostport(cand.ep)
                           THEN cand.ep ELSE acc.endpoints[i]]]
    ELSE [seen |-> acc.seen \cup {hostport(cand.ep)},
          endpoints |-> Append(acc.endpoints, cand.ep)]

\* lines 70-72 and 85-87: if ep.hostport not in seen_hostport: add and append
AddEndpoint(acc, cand) ==
    IF cand.skip \/ hostport(cand.ep) \in acc.seen THEN acc
    ELSE [seen |-> acc.seen \cup {hostport(cand.ep)},
          endpoints |-> Append(acc.endpoints, cand.ep)]

MIdle ==
    /\ m_pc = "off"
    /\ res_healthy_links = <<>>
    /\ res_healthy_clash = <<>>
    /\ check_host_country = FALSE
    /\ speed_enabled = FALSE
    /\ m_i = 0
    /\ endpoints = <<>>
    /\ seen_hostport = {}
    /\ iran_ok = <<>>
    /\ fast_count = 0
    /\ m_failed = {}
    /\ m_written = FALSE
    /\ m_sent = FALSE

\* main with nodes collected, at the call of check_nodes (line 45)
MInit ==
    /\ entry = "main"
    /\ m_pc = "check_nodes"
    /\ res_healthy_links = <<>>
    /\ res_healthy_clash = <<>>
    /\ check_host_country \in BOOLEAN
    /\ speed_enabled \in BOOLEAN
    /\ m_i = 0
    /\ endpoints = <<>>
    /\ seen_hostport = {}
    /\ iran_ok = <<>>
    /\ fast_count = 0
    /\ m_failed = {}
    /\ m_written = FALSE
    /\ m_sent = FALSE

\* lines 60-63: main at its two for loops, with any CheckResult
DedupeInit ==
    /\ entry = "dedupe"
    /\ m_pc = "links"
    /\ \E size \in ResultSizes :
          /\ res_healthy_links \in [1..size[1] -> LinkNodes]
          /\ res_healthy_clash \in [1..size[2] -> ClashProxies]
    /\ check_host_country = TRUE
    /\ speed_enabled = TRUE
    /\ m_i = 1
    /\ endpoints = <<>>
    /\ seen_hostport = {}
    /\ iran_ok = <<>>
    /\ fast_count = 0
    /\ m_failed = {}
    /\ m_written = FALSE
    /\ m_sent = FALSE

\* lines 45-53: res = await check_nodes(...), outside any try: an exception of
\* check_nodes leaves main
MCheckNodes ==
    /\ m_pc = "check_nodes"
    /\ \/ /\ \E r \in MainResults :
                /\ res_healthy_links' = r.links
                /\ res_healthy_clash' = r.clash
          /\ m_pc' = "links"
          /\ m_i' = 1
          /\ UNCHANGED m_failed
       \/ /\ m_pc' = "raised"
          /\ m_failed' = m_failed \cup {"delay"}
          /\ UNCHANGED <<res_healthy_links, res_healthy_clash, m_i>>
    /\ UNCHANGED <<check_host_country, speed_enabled, endpoints, seen_hostport, iran_ok,
                   fast_count, m_written, m_sent>>
    /\ UNCHANGED <<entry, cn_vars, rc_vars, p_vars, s_vars>>

\* lines 63-74: one pass of `for link in res.healthy_links`
MLink ==
    /\ m_pc = "links"
    /\ m_i <= Len(res_healthy_links)
    /\ LET acc == AddEndpoint([seen |-> seen_hostport, endpoints |-> endpoints],
                              LinkCandidate(res_healthy_links[m_i], m_i))
       IN /\ endpoints' = acc.endpoints
          /\ seen_hostport' = acc.seen
    /\ m_i' = m_i + 1
    /\ UNCHANGED <<m_pc, res_healthy_links, res_healthy_clash, check_host_country,
                   speed_enabled, iran_ok, fast_count, m_failed, m_written, m_sent>>
    /\ UNCHANGED <<entry, cn_vars, rc_vars, p_vars, s_vars>>

\* line 63: the loop over the links is exhausted
MLinksDone ==
    /\ m_pc = "links"
    /\ m_i > Len(res_healthy_links)
    /\ m_pc' = "proxies"
    /\ m_i' = 1
    /\ UNCHANGED <<res_healthy_links, res_healthy_clash, check_host_country, speed_enabled,
                   endpoints, seen_hostport, iran_ok, fast_count, m_failed, m_written,
                   m_sent>>
    /\ UNCHANGED <<entry, cn_vars, rc_vars, p_vars, s_vars>>

\* lines 76-89: one pass of `for p in res.healthy_clash_proxies`
MProxy ==
    /\ m_pc = "proxies"
    /\ m_i <= Len(res_healthy_clash)
    /\ LET acc == AddEndpoint([seen |-> seen_hostport, endpoints |-> endpoints],
                              ProxyCandidate(res_healthy_clash[m_i]))
       IN /\ endpoints' = acc.endpoints
          /\ seen_hostport' = acc.seen
    /\ m_i' = m_i + 1
    /\ UNCHANGED <<m_pc, res_healthy_links, res_healthy_clash, check_host_country,
                   speed_enabled, iran_ok, fast_count, m_failed, m_written, m_sent>>
    /\ UNCHANGED <<entry, cn_vars, rc_vars, p_vars, s_vars>>

\* line 76: the loop over the proxies is exhausted
MProxiesDone ==
    /\ m_pc = "proxies"
    /\ m_i > Len(res_healthy_clash)
    /\ m_pc' = "reachability"
    /\ m_i' = 0
    /\ UNCHANGED <<res_healthy_links, res_healthy_clash, check_host_country, speed_enabled,
                   endpoints, seen_hostport, iran_ok, fast_count, m_failed, m_written,
                   m_sent>>
    /\ UNCHANGED <<entry, cn_vars, rc_vars, p_vars, s_vars>>

\* lines 91-104: the reachability check gives some of the endpoints or raises;
\* except Exception: iran_ok = []
MReachability ==
    /\ m_pc = "reachability"
    /\ IF endpoints # <<>> /\ check_host_country
       THEN \/ /\ iran_ok' \in {endpoints, SubSeq(endpoints, 1, Len(endpoints) - 1)}
               /\ UNCHANGED m_failed
            \/ /\ iran_ok' = <<>>
               /\ m_failed' = m_failed \cup {"reachability"}
       ELSE UNCHANGED <<iran_ok, m_failed>>
    /\ m_pc' = "speed"
    /\ UNCHANGED <<res_healthy_links, res_healthy_clash, check_host_country, speed_enabled,
                   m_i, endpoints, seen_hostport, fast_count, m_written, m_sent>>
    /\ UNCHANGED <<entry, cn_vars, rc_vars, p_vars, s_vars>>

\* lines 219-269: find_fast_nodes gives the fast nodes or raises;
\* except Exception: fast_count = 0
MSpeed ==
    /\ m_pc = "speed"
    /\ IF speed_enabled
       THEN \/ /\ fast_count' \in 0..(Len(res_healthy_links) + Len(res_healthy_clash))
               /\ UNCHANGED m_failed
            \/ /\ fast_count' = 0
               /\ m_failed' = m_failed \cup {"speed"}
       ELSE UNCHANGED <<fast_count, m_failed>>
    /\ m_pc' = "write"
    /\ UNCHANGED <<res_healthy_links, res_healthy_clash, check_host_country, speed_enabled,
                   m_i, endpoints, seen_hostport, iran_ok, m_written, m_sent>>
    /\ UNCHANGED <<entry, cn_vars, rc_vars, p_vars, s_vars>>

\* lines 271-347: the result files are written
MWrite ==
    /\ m_pc = "write"
    /\ m_written' = TRUE
    /\ m_pc' = "send"
    /\ UNCHANGED <<res_healthy_links, res_healthy_clash, check_host_country, speed_enabled,
                   m_i, endpoints, seen_hostport, iran_ok, fast_count, m_failed, m_sent>>
    /\ UNCHANGED <<entry, cn_vars, rc_vars, p_vars, s_vars>>

\* lines 350-385: the documents and the summary message are sent
MSend ==
    /\ m_pc = "send"
    /\ m_sent' = TRUE
    /\ m_pc' = "done"
    /\ UNCHANGED <<res_healthy_links, res_healthy_clash, check_host_country, speed_enabled,
                   m_i, endpoints, seen_hostport, iran_ok, fast_count, m_failed, m_written>>
    /\ UNCHANGED <<entry, cn_vars, rc_vars, p_vars, s_vars>>

\* the two for loops of lines 63-89
DedupeNext == MLink \/ MLinksDone \/ MProxy \/ MProxiesDone

MNext ==
    \/ MCheckNodes
    \/ MLink
    \/ MLinksDone
    \/ MProxy
    \/ MProxiesDone
    \/ MReachability
    \/ MSpeed
    \/ MWrite
    \/ MSend

----------------------------------------------------------------------------
(* Specifications *)

InitCN == CNInit /\ RCIdle /\ PIdle /\ SIdle /\ MIdle
SpecCN == InitCN /\ [][CNNext]_vars

\* check_nodes under the scheduling of the event loop: a coroutine that can take a
\* step takes one, and the engine start and every delay test answer in finite time
FairSpecCN == SpecCN /\ WF_vars(CNNext)

InitRC == RCInit /\ CNIdle /\ PIdle /\ SIdle /\ MIdle
SpecRC == InitRC /\ [][RCNext]_vars

InitPoll == PInit /\ CNIdle /\ RCIdle /\ SIdle /\ MIdle
SpecPoll == InitPoll /\ [][PNext]_vars

\* the event loop runs every task that can run, and the clock advances
FairSpecPoll == SpecPoll /\ WF_vars(PNext)

InitSan == SInit /\ CNIdle /\ RCIdle /\ PIdle /\ MIdle
SpecSan == InitSan /\ [][SNext]_vars

InitMain == MInit /\ CNIdle /\ RCIdle /\ PIdle /\ SIdle
SpecMain == InitMain /\ [][MNext]_vars

InitDedupe == DedupeInit /\ CNIdle /\ RCIdle /\ PIdle /\ SIdle
SpecDedupe == InitDedupe /\ [][DedupeNext]_vars

\* a run calls one of the functions
Init == InitCN \/ InitRC \/ InitPoll \/ InitSan \/ InitMain
Next == CNNext \/ RCNext \/ PNext \/ SNext \/ MNext
Spec == Init /\ [][Next]_vars

----------------------------------------------------------------------------
(* Properties of check_nodes *)

InFlight == {n \in Nodes : one_pc[n] = "testing"}
Healthy(n) == delay[n].kind = "returned" /\ delay[n].present

\* C1: an exception raised by one tag's delay test is swallowed: the tag
\* contributes nothing to either accumulator, no exception reaches the caller of
\* check_nodes once a delay test has been issued (only engine start can make
\* check_nodes raise), and when check_nodes returns every tag has been tested
\* and every tag whose test returned a delay has its exports in the result.
C1_DelayTestExceptionSwallowed ==
    /\ cn_pc \in {"unwind", "raised"} =>
          \A n \in Nodes : delay[n] = Untested /\ one_pc[n] = "new"
    /\ \A n \in Nodes :
          delay[n] = Raised => Count(healthy_links, n) = 0 /\ Count(healthy_clash, n) = 0
    /\ cn_pc = "returned" =>
          \A n \in Nodes :
             /\ delay[n] # Untested
             /\ Healthy(n) /\ export_link[n] => Count(healthy_links, n) = 1
             /\ Healthy(n) /\ export_clash_proxy[n] => Count(healthy_clash, n) = 1

\* check_nodes returned although one tag's test raised, and another tag is in the result
C1_Witness ==
    /\ cn_pc = "returned"
    /\ \E n, m \in Nodes :
          delay[n] = Raised /\ Healthy(m) /\ Count(healthy_links, m) = 1

\* C2: at every moment, and so when check_nodes returns, healthy_links holds
\* exactly one entry for each node with an export_link whose delay test returned a
\* present delay (0 included) and none for any other node; the same for
\* healthy_clash and export_clash_proxy; at return every node has been tested.
C2_AccumulatorsExact ==
    /\ \A n \in Nodes :
          /\ Count(healthy_links, n) = IF Healthy(n) /\ export_link[n] THEN 1 ELSE 0
          /\ Count(healthy_clash, n) = IF Healthy(n) /\ export_clash_proxy[n] THEN 1 ELSE 0
    /\ cn_pc = "returned" => \A n \in Nodes : delay[n] # Untested

\* check_nodes returned; a node whose delay was 0 ms is in healthy_links, and a node
\* with an export_link whose test gave no delay is not
C2_Witness ==
    /\ cn_pc = "returned"
    /\ Len(healthy_links) = 1 /\ Len(healthy_clash) >= 1
    /\ \E n \in Nodes : delay[n] = Delay(0) /\ Count(healthy_links, n) = 1
    /\ \E n \in Nodes : ~Healthy(n) /\ export_link[n]

\* C3: the number of delay tests issued and not yet returned or raised is at
\* most max_concurrency.
C3_InFlightBounded == Cardinality(InFlight) <= max_concurrency

\* the limiter is full and another task waits for admission
C3_Witness ==
    /\ max_concurrency >= 1
    /\ Cardinality(InFlight) = max_concurrency
    /\ \E n \in Nodes : one_pc[n] = "acquire"

\* C4: the engine is acquired and started before any delay test is issued, it is
\* started at most once and released at most once, no delay test is in flight
\* once it has been released, and on every exit (return or raise) it has been
\* acquired, started and released exactly once.
C4_EngineScoped ==
    /\ engine.entered <= 1 /\ engine.started <= 1 /\ engine.released <= 1
    /\ \A n \in Nodes :
          one_pc[n] = "testing" \/ delay[n] # Untested =>
             engine.entered = 1 /\ engine.started = 1
    /\ engine.released >= 1 => InFlight = {} /\ \A n \in Nodes : one_pc[n] # "acquire"
    /\ cn_pc \in {"returned", "raised"} =>
          engine.entered = 1 /\ engine.started = 1 /\ engine.released = 1

\* check_nodes returned after a test failed, the engine released once
C4_Witness ==
    /\ cn_pc = "returned"
    /\ engine.released = 1
    /\ \E n \in Nodes : delay[n] = Raised

----------------------------------------------------------------------------
(* Properties of engine start failure *)

----------------------------------------------------------------------------
(* Properties of _poll_tcp_result *)

Range(seq) == {seq[i] : i \in 1..Len(seq)}

\* C6: an attempt reports the endpoint reachable iff its response is a 200 with a
\* JSON object in which at least min_success distinct probe nodes of node_names
\* have a result array containing an object with `time` and without `error`;
\* several such objects of one probe count once, null and error-bearing results
\* count zero.
C6_QuorumOfDistinctProbes ==
    p_last.kind # "none" =>
       ((p_last.did = "true") <=>
           /\ p_last.well_formed
           /\ Cardinality(p_last.successful \cap Range(p_node_names)) >= min_success)

\* successes from A and B but not C, quorum 2: reachable
C6_Witness ==
    /\ p_node_names = <<"A", "B", "C">>
    /\ min_success = 2
    /\ p_last.successful = {"A", "B"}
    /\ p_result = "true"

----------------------------------------------------------------------------
(* Properties of reachable_from_country *)

\* C8: an endpoint whose confirm delay test returned d is in ok (once) iff d is
\* present and 0 < d <= max_delay_ms; with no control-plane handle an endpoint
\* whose poll reported quorum is in ok.
C8_ConfirmGate ==
    \A e \in Endpoints :
       /\ Count(ok, e) <= 1
       /\ confirm[e].kind = "returned" =>
             (Count(ok, e) = 1 <=>
                 confirm[e].present /\ 0 < confirm[e].ms /\ confirm[e].ms <= max_delay_ms)
       /\ ~(api /\ runner) /\ success_tcp[e] = "true" => Count(ok, e) = 1

\* a delay of exactly the maximum passed and one of a millisecond more failed
C8_Witness ==
    \E e, f \in Endpoints :
       /\ confirm[e] = Delay(max_delay_ms) /\ Count(ok, e) = 1
       /\ confirm[f] = Delay(max_delay_ms + 1) /\ Count(ok, f) = 0

\* C9: an exception raised in the submit or poll step of an endpoint does not
\* escape reachable_from_country.
C9_SubmitPollExceptionContained ==
    (\E e \in Endpoints : test_pc[e] = "failed") => rc_pc # "raised"

\* C10: an endpoint whose confirm delay test raised is never in ok.
C10_ConfirmExceptionRejects ==
    \A e \in Endpoints : confirm[e] = Raised => Count(ok, e) = 0

\* C11: whenever the confirmation engine was started, it has been released exactly
\* once when reachable_from_country exits (by return or by exception).
C11_EngineReleasedOnEveryExit ==
    rc_pc \in {"returned", "raised"} /\ rc_engine.up = "ok" => rc_engine.released = 1

\* the endpoints between the start of their submit and their final verdict
InChain == {e \in Endpoints : test_pc[e] \in {"submit", "poll", "confirm"}}

\* C12: at most max(1, concurrency) endpoints are in their submit/poll/confirm
\* chain, and once the limiter exists its free slots plus the endpoints in their
\* chain are exactly max(1, concurrency): a slot is held across the whole chain and
\* given back on every way out of it (return or exception).
C12_ChainHoldsOneSlot ==
    /\ Cardinality(InChain) <= Max(1, concurrency)
    /\ node_names # <<>> => rc_sem + Cardinality(InChain) = Max(1, concurrency)

\* concurrency 0 is clamped to 1: one endpoint is in its chain after another left
\* it, and nobody else is admitted meanwhile
C12_Witness ==
    /\ concurrency = 0
    /\ rc_sem = 0
    /\ \E e, f \in Endpoints :
          test_pc[e] \in {"poll", "confirm"} /\ test_pc[f] \in {"done", "failed"}

\* a request identifier: what _start_tcp_check gives on success
IsId(x) == x \notin {"untested", "raise", "py_None", ""}

\* C20: the steps of an endpoint's chain are ordered and submit is not retried:
\* the submit request is outstanding only while it has no answer and its answer is
\* never replaced nor the request reissued; a poll is issued only with a request
\* identifier; a confirm delay test only after the poll gave True; after a failed
\* submit the endpoint is done, with no poll, no confirm and no entry in ok.
C20_ChainOrdered ==
    /\ [](\A e \in Endpoints :
            /\ test_pc[e] = "submit" => rid[e] = "untested"
            /\ test_pc[e] \in {"poll", "confirm"} \/ success_tcp[e] # "untested" =>
                  IsId(rid[e])
            /\ test_pc[e] = "confirm" \/ confirm[e] # Untested => success_tcp[e] = "true"
            /\ rid[e] \in {"py_None", ""} =>
                  /\ test_pc[e] = "done"
                  /\ success_tcp[e] = "untested"
                  /\ confirm[e] = Untested
                  /\ Count(ok, e) = 0)
    /\ [][\A e \in Endpoints :
            rid[e] # "untested" => rid'[e] = rid[e] /\ test_pc'[e] # "submit"]_vars

\* one endpoint was dropped at a failed submit, another went through poll and
\* confirm into ok
C20_Witness ==
    \E e, f \in Endpoints :
       /\ rid[e] = "py_None" /\ test_pc[e] = "done"
       /\ IsId(rid[f]) /\ success_tcp[f] = "true" /\ confirm[f] = Delay(1)
       /\ Count(ok, f) = 1

----------------------------------------------------------------------------
(* Properties of the sanitizer *)

\* the dicts in v, v included, at any depth through dicts, lists and tuples
RECURSIVE NestedObjects(_)
NestedObjects(v) ==
    IF v.kind = "dict"
    THEN {v} \cup UNION {NestedObjects(v.items[k]) : k \in DOMAIN v.items}
    ELSE IF v.kind \in {"list", "tuple"}
    THEN UNION {NestedObjects(v.elems[i]) : i \in 1..Len(v.elems)}
    ELSE {}

IsHex(c) == c \in hex_digits

\* p has a `%` that is not followed by two hexadecimal digits
MalformedEscape(p) ==
    \E i \in 1..Len(p) :
       /\ p[i] = "%"
       /\ ~(i + 2 <= Len(p) /\ IsHex(p[i + 1]) /\ IsHex(p[i + 2]))

\* d carries a transport sub-object of a websocket type with a malformed string path
CarriesBadWsPath(d) ==
    /\ "transport" \in DOMAIN d.items
    /\ d.items["transport"].kind = "dict"
    /\ LET t == d.items["transport"].items
       IN /\ "type" \in DOMAIN t /\ t["type"] \in {Str(ws), Str(websocket)}
          /\ "path" \in DOMAIN t /\ t["path"].kind = "str"
          /\ MalformedEscape(t["path"].text)

\* C15: the outbound is marked invalid iff some nested object carries a transport
\* sub-object of a websocket type whose string path has a `%` not followed by two
\* hexadecimal digits.
C15_InvalidIffMalformedWsPath ==
    s_pc # "given" =>
       (s_invalid <=> \E d \in NestedObjects(s_given) : CarriesBadWsPath(d))

\* marked invalid for a `%` that is the second-to-last character of the path of a
\* websocket transport inside a list
C15_Witness ==
    /\ s_pc = "checked"
    /\ s_invalid
    /\ s_given = Outbound("list",
                          Dict(("type" :> Str(websocket))
                               @@ ("path" :> Str(<<"2", "%", "2">>))),
                          Str(<<"x">>))

\* C17: after the batch was sanitized, the outbound of the original Node has, at
\* every depth, the values it had before the call.
C17_OriginalUntouched ==
    s_pc \in {"sanitized", "again"} => s_ob = s_given

\* C18: sanitize_outbound applied to its own result gives a configuration equal
\* to the result of applying it once.
C18_SanitizeIdempotent ==
    s_pc = "again" => s_again = s_clean

\* the first application converted a null uuid and a numeric path in a nested
\* transport, and the second was applied
C18_Witness ==
    /\ s_pc = "again"
    /\ s_given = Outbound("dict", Dict(("type" :> Str(ws)) @@ ("path" :> PyInt(5))), PyNone)
    /\ s_clean = Outbound("dict", Dict(("type" :> Str(ws)) @@ ("path" :> Str(<<"5">>))),
                          Str(<<>>))

\* the string form of a number or a boolean, the empty string for null
StringForm(val) ==
    IF val.kind = "none" THEN Str(<<>>)
    ELSE IF val.kind = "bool" THEN Str(IF val.b THEN <<"T", "r", "u", "e">>
                                                ELSE <<"F", "a", "l", "s", "e">>)
    ELSE IF val.kind = "int" THEN Str(IntStr(val.n))
    ELSE IF val.kind = "float" THEN Str(IntStr(val.units) \o <<".">> \o NatStr(val.tenths))
    ELSE val

\* v with the string-required fields of every nested object in their string form
RECURSIVE EveryObjectCoerced(_)
EveryObjectCoerced(v) ==
    IF v.kind = "dict"
    THEN Dict([k \in DOMAIN v.items |->
                 EveryObjectCoerced(IF k \in string_fields THEN StringForm(v.items[k])
                                    ELSE v.items[k])])
    ELSE IF v.kind \in {"list", "tuple"}
    THEN [v EXCEPT !.elems = [i \in 1..Len(v.elems) |-> EveryObjectCoerced(v.elems[i])]]
    ELSE v

\* C19: after sanitize_outbound, in every nested object at any depth no
\* string-required field holds a number, a boolean or null: they have become their
\* string form (null the empty string), and every other field is unchanged.
C19_StringFieldsCoercedAtEveryDepth ==
    s_pc \in {"sanitized", "again"} =>
       /\ \A d \in NestedObjects(s_clean) :
             \A k \in DOMAIN d.items \cap string_fields :
                d.items[k].kind \notin {"int", "float", "bool", "none"}
       /\ s_clean = EveryObjectCoerced(s_given)

----------------------------------------------------------------------------
(* Properties of the outbound batch of check_nodes *)

\* the nodes whose outbound the websocket-path check does not mark, in input order
ValidNodes ==
    SelectSeq([n \in Nodes |-> n],
              LAMBDA n : ~\E d \in NestedObjects(node_outbound[n]) : CarriesBadWsPath(d))

\* the nodes the entries of a batch came from
Tags(batch) == [i \in 1..Len(batch) |-> batch[i].node]

\* C16: the batch handed to engine start has no outbound with an invalid
\* websocket path and has every valid input outbound exactly once, in input
\* order; the list is already so when the engine is entered and started.
C16_BatchIsTheValidOutbounds ==
    /\ cn_pc \in {"sanitize", "enter", "start"} => Tags(outbounds) = ValidNodes
    /\ engine.started > 0 =>
          /\ Tags(start_arg) = ValidNodes
          /\ \A i \in 1..Len(start_arg) :
                ~\E d \in NestedObjects(start_arg[i].ob) : CarriesBadWsPath(d)

\* the engine was started with the second node's outbound only: the first was dropped
C16_Witness ==
    /\ engine.started = 1
    /\ NumNodes >= 2
    /\ Tags(start_arg) = <<2>>
    /\ \E d \in NestedObjects(node_outbound[1]) : CarriesBadWsPath(d)

----------------------------------------------------------------------------
(* Properties of main *)

\* C13: the total failure of a stage (delay test, reachability check, speed
\* filter) leaves that stage's output empty and does not halt main: main ends
\* with the result files written and the summary sent.
C13_StageFailureDoesNotHalt ==
    /\ m_pc \in {"done", "raised"} => m_written /\ m_sent
    /\ "delay" \in m_failed => res_healthy_links = <<>> /\ res_healthy_clash = <<>>
    /\ "reachability" \in m_failed => iran_ok = <<>>
    /\ "speed" \in m_failed => fast_count = 0

\* the endpoint candidates in input order: the healthy links, then the healthy
\* clash proxies, that give an Endpoint
Candidates ==
    LET all == [i \in 1..Len(res_healthy_links) |->
                   LinkCandidate(res_healthy_links[i], i)]
               \o [j \in 1..Len(res_healthy_clash) |->
                      ProxyCandidate(res_healthy_clash[j])]
        given == SelectSeq(all, LAMBDA c : ~c.skip)
    IN [i \in 1..Len(given) |-> given[i].ep]

\* host:port of an Endpoint, as a pair
HostPort(ep) == <<ep.host, ep.port>>

\* C14: the deduplicated list has exactly one Endpoint per distinct host:port among
\* the candidates, it is the first candidate with that host:port (line included),
\* and the list is in input order.
C14_FirstPerHostPortInOrder ==
    m_pc = "reachability" =>
       LET first == {i \in 1..Len(Candidates) :
                       \A j \in 1..(i - 1) : HostPort(Candidates[j]) # HostPort(Candidates[i])}
       IN /\ Len(endpoints) = Cardinality(first)
          /\ \A k \in 1..Len(endpoints) :
                \E i \in first :
                   /\ endpoints[k] = Candidates[i]
                   /\ Cardinality({j \in first : j < i}) = k - 1

\* a link and a proxy give the same host:port (" a" and "a", "80" and 80): the
\* list has the link's Endpoint only
C14_Witness ==
    /\ entry = "dedupe"
    /\ m_pc = "reachability"
    /\ Len(Candidates) = 2
    /\ Candidates[1].line = LinkText(1)
    /\ Candidates[2].line = <<"a", ":", "8", "0", "\t", "n">>
    /\ endpoints = <<Candidates[1]>>

----------------------------------------------------------------------------
(* Properties of the retries of _poll_tcp_result *)

\* C21: an attempt answered by a response (a status other than 200, a malformed
\* body, or a well-formed body below quorum) that does not reach quorum is a retry:
\* it does not end the call with an exception, and the call gives False only at or
\* past the deadline.
C21_NoQuorumIsNotYetAvailable ==
    p_last.kind \notin {"none", "neterr"} /\ p_last.did # "true" =>
       /\ p_last.did = "retry"
       /\ p_result # "raise"
       /\ p_result = "false" => now >= deadline

----------------------------------------------------------------------------
(* Properties of the probe-node set of reachable_from_country *)

\* C22: get_nodes is called exactly once per call, its node set does not change
\* afterwards and is the one every submit and every poll is called with; with an
\* empty set the function returns an empty list with no submit, no poll and no
\* engine start.
C22_ProbeNodesFetchedOnce ==
    /\ [](fetches <= 1 /\ (rc_pc # "get_nodes" => fetches = 1))
    /\ [][fetches = 1 => node_names' = node_names]_vars
    /\ [](\A e \in Endpoints :
            /\ rid[e] # "untested" => submit_names[e] = node_names /\ node_names # <<>>
            /\ success_tcp[e] # "untested" => poll_names[e] = node_names)
    /\ [](rc_pc # "get_nodes" /\ node_names = <<>> =>
            /\ rc_pc \in {"returned", "raised"}
            /\ ok = <<>>
            /\ rc_engine = NewEngine /\ ~runner
            /\ \A e \in Endpoints :
                  test_pc[e] = "new" /\ rid[e] = "untested" /\ success_tcp[e] = "untested")

\* with endpoints to test and an engine configured, get_nodes gave no probe node
\* and the function returned
C22_Witness ==
    /\ rc_pc = "returned"
    /\ fetches = 1
    /\ node_names = <<>>
    /\ singbox_path
    /\ max_endpoints = NumEndpoints
    /\ ok = <<>>


\* C23: every Endpoint that main derives from the healthy nodes and hands to the
\* reachability stage has a non-empty host and a port with 0 < port <= 65535,
\* whatever host and port the healthy links and clash proxies carry.
C23_EndpointsInRange ==
    \A i \in 1..Len(endpoints) :
       /\ endpoints[i].host # <<>>
       /\ 0 < endpoints[i].port
       /\ endpoints[i].port <= 65535


\* C24: for every max_concurrency, 0 included, check_nodes eventually returns or
\* raises when the engine start and every delay test answer in finite time: no
\* worker waits forever for a slot of the semaphore.
C24_CheckNodesTerminates == <>(cn_pc \in {"returned", "raised"})


\* C25: a delay test is issued only for a node whose outbound is in the batch
\* handed to the engine start: a node dropped by the websocket-path check is
\* never delay-tested.
C25_OnlyBatchTagsTested ==
    \A n \in Nodes :
       one_pc[n] \in {"testing", "done"} \/ delay[n] # Untested =>
          \E i \in 1..Len(start_arg) : start_arg[i].node = n

====
